---------------------------- MODULE Spec2Model ----------------------------
(***************************************************************************)
(* Azumi Image Hosting: the catalog (sqlite tables images, tags,           *)
(* image_tags), the uploads directory, and the request handlers of         *)
(* ImageController running concurrently on one event loop.  A handler is   *)
(* cut into steps at its awaits (one catalog statement each) and at its    *)
(* file-system calls; files can also disappear out-of-band.                *)
(***************************************************************************)
EXTENDS Integers, Sequences, FiniteSets, TLC

(* ------------------------------ bounds -------------------------------- *)
\* records already in the catalog when the server starts
MaxInit == 2
\* files uploaded while the server runs
MaxNew == 1
\* file and encoding sizes, in units of the size budget's granularity
MaxSize == 3
\* files or URLs in one ingestion request
MaxBatch == 2
\* widest original image, in pixels
MaxWidth == 78
\* EnsureMaxSize calls in a row on one file
MaxCalls == 2
\* characters in a raw tag input
MaxLen == 4

(* ------------------------- program constants -------------------------- *)
\* const maxTries = 50 in GetImages
maxTries == 50

Procs == {1, 2}
\* req.user of the request a process serves: user 1 is the seeded admin
UserRole(u) == IF u = 1 THEN "admin" ELSE "user"
TagNames == {"x", "y"}
\* the ?tags= filters requests carry
Filters == {{}, {"x"}, {"y"}}
\* the tag lists uploads carry, already normalised
UploadTags == {<<>>, <<"y">>, <<"x", "y">>}

VARIABLES
  images,     \* table images: id -> row
  imageTags,  \* table image_tags: set of <<image_id, tag_id>>
  tags,       \* table tags: name -> id
  nextId,     \* AUTOINCREMENT sequence of images
  nextTagId,  \* AUTOINCREMENT sequence of tags
  files,      \* storage paths that exist in the uploads directory
  nextPath,   \* next unique stored filename
  readOnly,   \* the catalog rejects writes (storage fault)
  req,        \* per process: the request being served
  enc         \* one EnsureMaxSize call (specification SpecEnc)

vars == <<images, imageTags, tags, nextId, nextTagId, files, nextPath,
          readOnly, req, enc>>

catalogVars == <<images, imageTags, tags, nextId, nextTagId>>

(* ------------------------------ helpers ------------------------------- *)
EmptyFcn == [i \in {} |-> 0]
NoRow == [id |-> 0, path |-> 0, owner |-> 0]
NoResult == [kind |-> "none", id |-> 0]
NoSnap == [images |-> EmptyFcn, imageTags |-> {}, tags |-> EmptyFcn, files |-> {}]
Snapshot == [images |-> images, imageTags |-> imageTags, tags |-> tags, files |-> files]

\* no EnsureMaxSize call in progress
NoEnc == [pc |-> "off"]

SetMax(S) == CHOOSE m \in S : \A n \in S : n <= m

RECURSIVE SortDesc(_)
SortDesc(S) == IF S = {} THEN <<>> ELSE <<SetMax(S)>> \o SortDesc(S \ {SetMax(S)})

SeqMap(Op(_), s) == [k \in 1..Len(s) |-> Op(s[k])]

Idle == [op |-> "idle", pc |-> "idle", tagNames |-> {}, arg |-> 0,
         rows |-> <<>>, candidate |-> NoRow, tries |-> 0,
         result |-> NoResult,
         upTags |-> <<>>, tagIds |-> <<>>,
         seen |-> {}, deleted |-> {}, hit |-> FALSE,
         draws |-> 0, dels |-> 0, checks |-> 0,
         quiet |-> TRUE, snap |-> NoSnap,
         items |-> <<>>, item |-> 0, fsize |-> 0, budget |-> 0,
         todo |-> <<>>, created |-> <<>>, encFailed |-> FALSE,
         rawTags |-> <<>>, once |-> <<>>, twice |-> <<>>]

(* --------------------------- the catalog ------------------------------ *)
\* a row of images as a handler holds it in memory
Row(i) == [id |-> i, path |-> images[i].path, owner |-> images[i].owner]

LinksOf(i) == {l \in imageTags : l[1] = i}

\* WHERE t.name IN (...) over images JOIN image_tags JOIN tags; no filter: all rows
MatchIn(imgs, links, tgs, tagNames) ==
  IF tagNames = {} THEN DOMAIN imgs
  ELSE {i \in DOMAIN imgs :
          \E n \in tagNames \cap DOMAIN tgs : <<i, tgs[n]>> \in links}

Matches(tagNames) == MatchIn(images, imageTags, tags, tagNames)

\* faulty variant: ORDER BY i.id ASC
ListImagesByTagsAsc(tagNames) ==
  LET rows == SeqMap(Row, SortDesc(Matches(tagNames)))
  IN [k \in 1..Len(rows) |-> rows[Len(rows) + 1 - k]]

\* SELECT DISTINCT i.* ... ORDER BY i.id DESC
ListImagesByTags(tagNames) == SeqMap(Row, SortDesc(Matches(tagNames)))

\* faulty variant: the tag filter is dropped from the random query
RandomImagesAny(tagNames) == {Row(i) : i \in DOMAIN images}

\* ... ORDER BY RANDOM() LIMIT 1: the rows one draw can return
RandomImages(tagNames) == {Row(i) : i \in Matches(tagNames)}

GetImageById(id) == IF id \in DOMAIN images THEN Row(id) ELSE NoRow

\* DELETE FROM images WHERE id = ?, with ON DELETE CASCADE of image_tags
ImagesWithout(id) == [i \in DOMAIN images \ {id} |-> images[i]]
LinksWithout(id) == imageTags \ LinksOf(id)

\* faulty variant: foreign keys are not enforced, so nothing cascades
DeleteImageNoCascade(id) ==
  IF readOnly
  THEN [ok |-> FALSE, images |-> images, imageTags |-> imageTags]
  ELSE [ok |-> TRUE, images |-> ImagesWithout(id), imageTags |-> imageTags]

\* faulty variant: deleting an id with no row throws
DeleteImageStrict(id) ==
  IF readOnly \/ id \notin DOMAIN images
  THEN [ok |-> FALSE, images |-> images, imageTags |-> imageTags]
  ELSE [ok |-> TRUE, images |-> ImagesWithout(id), imageTags |-> LinksWithout(id)]

\* ImageRepository.DeleteImage: one statement; ok is FALSE when it throws.
\* Deleting an id with no row changes nothing and does not throw.
DeleteImage(id) ==
  IF readOnly
  THEN [ok |-> FALSE, images |-> images, imageTags |-> imageTags]
  ELSE [ok |-> TRUE, images |-> ImagesWithout(id), imageTags |-> LinksWithout(id)]

\* the access token the controller receives from CreateImage
GenToken(id) == <<"tok", id>>

GetImageByToken(token) ==
  IF \E i \in DOMAIN images : images[i].token = token
  THEN Row(CHOOSE i \in DOMAIN images : images[i].token = token)
  ELSE NoRow

\* faulty variant: a new row takes the smallest id that no row has
CreateImageLowest(ownerId, storagePath, size) ==
  LET id == CHOOSE i \in 1..(Cardinality(DOMAIN images) + 1) :
              /\ i \notin DOMAIN images
              /\ \A j \in 1..(i - 1) : j \in DOMAIN images
  IN [ok |-> ~readOnly,
      id |-> id,
      images |-> IF readOnly THEN images
                 ELSE [i \in DOMAIN images \cup {id} |->
                         IF i = id
                         THEN [owner |-> ownerId, path |-> storagePath,
                               size |-> size, token |-> GenToken(id)]
                         ELSE images[i]]]

\* faulty variant: the id column is a plain rowid, one more than the largest
\* id in the table, so the id of a deleted newest row is handed out again
CreateImageRowid(ownerId, storagePath, size) ==
  LET id == SetMax(DOMAIN images \cup {0}) + 1
  IN [ok |-> ~readOnly,
      id |-> id,
      images |-> IF readOnly THEN images
                 ELSE [i \in DOMAIN images \cup {id} |->
                         IF i = id
                         THEN [owner |-> ownerId, path |-> storagePath,
                               size |-> size, token |-> GenToken(id)]
                         ELSE images[i]]]

\* INSERT INTO images ...; lastID is the AUTOINCREMENT value
CreateImage(ownerId, storagePath, size) ==
  [ok |-> ~readOnly,
   id |-> nextId,
   images |-> IF readOnly THEN images
              ELSE [i \in DOMAIN images \cup {nextId} |->
                      IF i = nextId
                      THEN [owner |-> ownerId, path |-> storagePath,
                            size |-> size, token |-> GenToken(nextId)]
                      ELSE images[i]]]

\* faulty variant: the foreign keys of image_tags are not checked
AttachTagUnchecked(imageId, tagId) ==
  IF readOnly
  THEN [ok |-> FALSE, imageTags |-> imageTags]
  ELSE [ok |-> TRUE, imageTags |-> imageTags \cup {<<imageId, tagId>>}]

\* one INSERT OR IGNORE INTO image_tags of AttachTags; both foreign keys are
\* enforced (PRAGMA foreign_keys = ON) and a violation throws
AttachTag(imageId, tagId) ==
  IF readOnly \/ imageId \notin DOMAIN images
     \/ ~(\E n \in DOMAIN tags : tags[n] = tagId)
  THEN [ok |-> FALSE, imageTags |-> imageTags]
  ELSE [ok |-> TRUE, imageTags |-> imageTags \cup {<<imageId, tagId>>}]

(* --------------------------- the file store --------------------------- *)
\* fs.existsSync(path.resolve(storage_path))
existsSync(path) == path \in files

(* ---------------------------- bookkeeping ----------------------------- *)
Active(r) == r.pc \notin {"idle", "done"}

\* a request that saw another party change the catalog or the files
Noise(r) == IF r.pc = "idle" THEN r ELSE [r EXCEPT !.quiet = FALSE, !.snap = NoSnap]

Disturbed ==
  <<images', imageTags', tags', files'>> # <<images, imageTags, tags, files>>

\* process p moves to r; the others note a change made in this step
SetReq(p, r) ==
  req' = [q \in Procs |-> IF q = p THEN r
                          ELSE IF Disturbed THEN Noise(req[q]) ELSE req[q]]

\* process p moves to r in a step that changes neither catalog nor files
Move(p, r) == req' = [req EXCEPT ![p] = r]

Finish(r, kind, id) == [r EXCEPT !.pc = "done", !.result = [kind |-> kind, id |-> id]]

\* each process serves one request of the run
CanStart(p) == req[p].pc = "idle"

Begin(p, r) ==
  req' = [req EXCEPT ![p] = [r EXCEPT !.snap = Snapshot]]

(* ------------------- GET /api/images (GetImages) ---------------------- *)
StartGetImages(p, tagNames, random) ==
  /\ CanStart(p)
  /\ Begin(p, [Idle EXCEPT !.op = IF random THEN "random" ELSE "newest",
                           !.pc = IF random THEN "draw" ELSE "list",
                           !.tagNames = tagNames])
  /\ UNCHANGED <<catalogVars, files, nextPath, readOnly, enc>>

\* random: pick = await ImageRepository.RandomImages(tags, 1)
Draw(p) ==
  LET r == req[p]
      picks == RandomImages(r.tagNames)
      r1 == [r EXCEPT !.draws = @ + 1]
  IN /\ r.pc = "draw"
     /\ IF picks = {}
        THEN Move(p, Finish(r1, "notfound", 0))
        ELSE \E c \in picks :
               Move(p, [r1 EXCEPT !.candidate = c, !.pc = "check"])
     /\ UNCHANGED <<catalogVars, files, nextPath, readOnly, enc>>

\* newest: rows = await ImageRepository.ListImagesByTags(tags)
List(p) ==
  LET r == req[p]
      rows == ListImagesByTags(r.tagNames)
  IN /\ r.pc = "list"
     /\ IF rows = <<>>
        THEN Move(p, Finish(r, "notfound", 0))
        ELSE Move(p, [r EXCEPT !.candidate = Head(rows), !.rows = Tail(rows),
                                 !.pc = "check"])
     /\ UNCHANGED <<catalogVars, files, nextPath, readOnly, enc>>

\* faulty variant: the existence test is inverted
CheckInverted(p) ==
  LET r == req[p]
      r1 == [r EXCEPT !.checks = @ + 1]
  IN /\ r.pc = "check"
     /\ IF ~existsSync(r.candidate.path)
        THEN Move(p, [r1 EXCEPT !.pc = "send", !.hit = TRUE])
        ELSE Move(p, [r1 EXCEPT !.pc = "del", !.seen = @ \cup {r.candidate.id}])
     /\ UNCHANGED <<catalogVars, files, nextPath, readOnly, enc>>

\* if (filePath && fs.existsSync(filePath)) return await SendImageFile(...)
Check(p) ==
  LET r == req[p]
      r1 == [r EXCEPT !.checks = @ + 1]
  IN /\ r.pc = "check"
     /\ IF existsSync(r.candidate.path)
        THEN Move(p, [r1 EXCEPT !.pc = "send", !.hit = TRUE])
        ELSE Move(p, [r1 EXCEPT !.pc = "del", !.seen = @ \cup {r.candidate.id}])
     /\ UNCHANGED <<catalogVars, files, nextPath, readOnly, enc>>

\* faulty variant: the failed attempt is not counted
AfterDeleteNoCount(r) ==
  IF r.op = "random"
  THEN [r EXCEPT !.pc = "draw"]
  ELSE IF r.rows = <<>>
       THEN Finish(r, "notfound", 0)
       ELSE [r EXCEPT !.candidate = Head(r.rows), !.rows = Tail(r.rows),
                      !.pc = "check"]

\* faulty variant: random mode gives up after the first missing file
AfterDeleteOnce(r) ==
  IF r.op = "random"
  THEN Finish([r EXCEPT !.tries = @ + 1], "notfound", 0)
  ELSE IF r.rows = <<>>
       THEN Finish(r, "notfound", 0)
       ELSE [r EXCEPT !.candidate = Head(r.rows), !.rows = Tail(r.rows),
                      !.pc = "check"]

\* the loop after a missing file: the lazy delete (its failure swallowed),
\* then tries++ and the next draw, or the next row
AfterDelete(r) ==
  IF r.op = "random"
  THEN IF r.tries + 1 < maxTries
       THEN [r EXCEPT !.tries = @ + 1, !.pc = "draw"]
       ELSE Finish([r EXCEPT !.tries = @ + 1], "notfound", 0)
  ELSE IF r.rows = <<>>
       THEN Finish(r, "notfound", 0)
       ELSE [r EXCEPT !.candidate = Head(r.rows), !.rows = Tail(r.rows),
                      !.pc = "check"]

\* faulty variant: no try/catch around the lazy delete, its failure ends the
\* request
DelThrows(p) ==
  LET r == req[p]
      d == DeleteImage(r.candidate.id)
      r1 == [r EXCEPT !.dels = @ + 1,
                      !.deleted = IF d.ok THEN @ \cup {r.candidate.id} ELSE @]
  IN /\ r.pc = "del"
     /\ images' = d.images
     /\ imageTags' = d.imageTags
     /\ UNCHANGED <<tags, nextId, nextTagId, files, nextPath, readOnly, enc>>
     /\ SetReq(p, IF d.ok THEN AfterDelete(r1)
                  ELSE Finish(r1, "fault", r.candidate.id))

\* try { if (r.id) await ImageRepository.DeleteImage(r.id) } catch (_) {}
Del(p) ==
  LET r == req[p]
      d == DeleteImage(r.candidate.id)
      r1 == [r EXCEPT !.dels = @ + 1,
                      !.deleted = IF d.ok THEN @ \cup {r.candidate.id} ELSE @]
  IN /\ r.pc = "del"
     /\ images' = d.images
     /\ imageTags' = d.imageTags
     /\ UNCHANGED <<tags, nextId, nextTagId, files, nextPath, readOnly, enc>>
     /\ SetReq(p, AfterDelete(r1))

(* --------------------------- SendImageFile ---------------------------- *)
\* if (!fs.existsSync(filePath)) { lazy delete; 404 }
SendImageFile(p) ==
  LET r == req[p]
      r1 == [r EXCEPT !.checks = @ + 1]
  IN /\ r.pc = "send"
     /\ IF existsSync(r.candidate.path)
        THEN Move(p, [r1 EXCEPT !.pc = "stat"])
        ELSE Move(p, [r1 EXCEPT !.pc = "senddel", !.seen = @ \cup {r.candidate.id}])
     /\ UNCHANGED <<catalogVars, files, nextPath, readOnly, enc>>

\* faulty variant: the response is sent from the catalog row without touching the file
SendStreamBlind(p) ==
  /\ req[p].pc = "stat"
  /\ Move(p, Finish(req[p], "image", req[p].candidate.id))
  /\ UNCHANGED <<catalogVars, files, nextPath, readOnly, enc>>

\* fs.statSync, headers, createReadStream(...).pipe(res); statSync throws
\* when the file went away after the check
SendStream(p) ==
  LET r == req[p]
  IN /\ r.pc = "stat"
     /\ IF existsSync(r.candidate.path)
        THEN Move(p, Finish(r, "image", r.candidate.id))
        ELSE Move(p, Finish(r, "fault", r.candidate.id))
     /\ UNCHANGED <<catalogVars, files, nextPath, readOnly, enc>>

\* faulty variant: 404 without the cleanup (the controller before lazy deletion)
SendMissingKeep(p) ==
  /\ req[p].pc = "senddel"
  /\ Move(p, Finish(req[p], "missing", req[p].candidate.id))
  /\ UNCHANGED <<catalogVars, files, nextPath, readOnly, enc>>

\* try { if (img.id) await ImageRepository.DeleteImage(img.id) } catch (_) {}
\* then 404 '文件缺失'
SendMissing(p) ==
  LET r == req[p]
      d == DeleteImage(r.candidate.id)
      r1 == [r EXCEPT !.dels = @ + 1,
                      !.deleted = IF d.ok THEN @ \cup {r.candidate.id} ELSE @]
  IN /\ r.pc = "senddel"
     /\ images' = d.images
     /\ imageTags' = d.imageTags
     /\ UNCHANGED <<tags, nextId, nextTagId, files, nextPath, readOnly, enc>>
     /\ SetReq(p, Finish(r1, "missing", r.candidate.id))

(* ---------------- GET /api/images/list (ListImages) ------------------- *)
StartListImages(p, tagNames) ==
  /\ CanStart(p)
  /\ Begin(p, [Idle EXCEPT !.op = "list", !.pc = "listq", !.tagNames = tagNames])
  /\ UNCHANGED <<catalogVars, files, nextPath, readOnly, enc>>

\* rows = await ImageRepository.ListImagesByTags(tags)
ListQuery(p) ==
  /\ req[p].pc = "listq"
  /\ Move(p, [req[p] EXCEPT !.rows = ListImagesByTags(req[p].tagNames),
                            !.pc = "filter"])
  /\ UNCHANGED <<catalogVars, files, nextPath, readOnly, enc>>

\* faulty variant: the rows whose file is missing are deleted while listing
ListFilterPurge(p) ==
  LET r == req[p]
      Live(row) == existsSync(row.path)
      gone == {r.rows[k].id : k \in {j \in DOMAIN r.rows : ~Live(r.rows[j])}}
  IN /\ r.pc = "filter"
     /\ images' = [i \in DOMAIN images \ gone |-> images[i]]
     /\ imageTags' = {l \in imageTags : l[1] \notin gone}
     /\ UNCHANGED <<tags, nextId, nextTagId, files, nextPath, readOnly, enc>>
     /\ SetReq(p, Finish([r EXCEPT !.rows = SelectSeq(r.rows, Live)], "list", 0))

\* (rows || []).filter(r => filePath && fs.existsSync(filePath)).map(...);
\* res.json({ images })
ListFilter(p) ==
  LET r == req[p]
      Live(row) == existsSync(row.path)
  IN /\ r.pc = "filter"
     /\ Move(p, Finish([r EXCEPT !.rows = SelectSeq(r.rows, Live)], "list", 0))
     /\ UNCHANGED <<catalogVars, files, nextPath, readOnly, enc>>

(* ------------ GET /api/images/:id/raw and GET by token ---------------- *)
StartGetRaw(p, id) ==
  /\ CanStart(p)
  /\ Begin(p, [Idle EXCEPT !.op = "raw", !.pc = "get", !.arg = id])
  /\ UNCHANGED <<catalogVars, files, nextPath, readOnly, enc>>

StartGetImageByToken(p, id) ==
  /\ CanStart(p)
  /\ Begin(p, [Idle EXCEPT !.op = "token", !.pc = "get", !.arg = id])
  /\ UNCHANGED <<catalogVars, files, nextPath, readOnly, enc>>

\* img = await GetImageById(id) / GetImageByToken(token); if (!img) 404
Lookup(p) ==
  LET r == req[p]
      img == IF r.op = "token" THEN GetImageByToken(GenToken(r.arg))
             ELSE GetImageById(r.arg)
  IN /\ r.pc = "get"
     /\ IF img = NoRow
        THEN Move(p, Finish(r, "notfound", 0))
        ELSE Move(p, [r EXCEPT !.candidate = img,
                                 !.pc = IF r.op = "delete" THEN "unlink" ELSE "send"])
     /\ UNCHANGED <<catalogVars, files, nextPath, readOnly, enc>>

(* ------------------ DELETE /api/images/:id ---------------------------- *)
StartDeleteImage(p, id) ==
  /\ CanStart(p)
  /\ Begin(p, [Idle EXCEPT !.op = "delete", !.pc = "get", !.arg = id])
  /\ UNCHANGED <<catalogVars, files, nextPath, readOnly, enc>>

\* faulty variant: the row is deleted but the file is left on disk
UnlinkKeepFile(p) ==
  LET r == req[p]
      isOwner == p = r.candidate.owner
      isAdmin == UserRole(p) = "admin"
  IN /\ r.pc = "unlink"
     /\ UNCHANGED <<catalogVars, files, nextPath, readOnly, enc>>
     /\ IF ~isOwner /\ ~isAdmin
        THEN Move(p, Finish(r, "forbidden", r.candidate.id))
        ELSE Move(p, [r EXCEPT !.pc = "ddel"])

\* faulty variant: the file is unlinked before the owner-or-admin check
UnlinkFirst(p) ==
  LET r == req[p]
      isOwner == p = r.candidate.owner
      isAdmin == UserRole(p) = "admin"
  IN /\ r.pc = "unlink"
     /\ UNCHANGED <<catalogVars, nextPath, readOnly, enc>>
     /\ files' = files \ {r.candidate.path}
     /\ IF ~isOwner /\ ~isAdmin
        THEN SetReq(p, Finish(r, "forbidden", r.candidate.id))
        ELSE SetReq(p, [r EXCEPT !.pc = "ddel"])

\* the owner-or-admin check, then
\* if (fs.existsSync(img.storage_path)) fs.unlinkSync(img.storage_path)
Unlink(p) ==
  LET r == req[p]
      isOwner == p = r.candidate.owner
      isAdmin == UserRole(p) = "admin"
  IN /\ r.pc = "unlink"
     /\ UNCHANGED <<catalogVars, nextPath, readOnly, enc>>
     /\ IF ~isOwner /\ ~isAdmin
        THEN /\ files' = files
             /\ SetReq(p, Finish(r, "forbidden", r.candidate.id))
        ELSE /\ files' = files \ {r.candidate.path}
             /\ SetReq(p, [r EXCEPT !.pc = "ddel"])

\* await ImageRepository.DeleteImage(id); res.json({ deleted: id })
DeleteRow(p) ==
  LET r == req[p]
      d == DeleteImage(r.arg)
  IN /\ r.pc = "ddel"
     /\ images' = d.images
     /\ imageTags' = d.imageTags
     /\ UNCHANGED <<tags, nextId, nextTagId, files, nextPath, readOnly, enc>>
     /\ SetReq(p, Finish(r, IF d.ok THEN "deleted" ELSE "fault", r.arg))

(* ------------- POST /api/images/upload (UploadLocal) ------------------ *)
\* multer has stored the file under a fresh name before the handler runs;
\* here the request carries one file of one size unit (SpecIngest follows
\* batches of files and their sizes)
StartUploadLocal(p, tagList) ==
  /\ CanStart(p)
  /\ nextPath <= MaxInit + MaxNew
  /\ files' = files \cup {nextPath}
  /\ nextPath' = nextPath + 1
  /\ UNCHANGED <<catalogVars, readOnly, enc>>
  /\ SetReq(p, [Idle EXCEPT !.op = "upload", !.upTags = tagList,
                            !.pc = IF tagList = <<>> THEN "create" ELSE "ensure",
                            !.candidate = [id |-> 0, path |-> nextPath, owner |-> p],
                            !.fsize = 1,
                            !.snap = NoSnap, !.quiet = FALSE])

\* TagRepository.EnsureTags: SELECT id FROM tags WHERE name = ?
EnsureTagsSelect(p) ==
  LET r == req[p]
      name == Head(r.upTags)
  IN /\ r.pc = "ensure"
     /\ IF name \in DOMAIN tags
        THEN Move(p, [r EXCEPT !.tagIds = Append(@, tags[name]),
                               !.upTags = Tail(@),
                               !.pc = IF Tail(r.upTags) = <<>> THEN "create" ELSE "ensure"])
        ELSE Move(p, [r EXCEPT !.pc = "instag"])
     /\ UNCHANGED <<catalogVars, files, nextPath, readOnly, enc>>

\* TagRepository.EnsureTags: INSERT INTO tags (name) VALUES (?); name is UNIQUE
EnsureTagsInsert(p) ==
  LET r == req[p]
      name == Head(r.upTags)
  IN /\ r.pc = "instag"
     /\ UNCHANGED <<images, imageTags, nextId, files, nextPath, readOnly, enc>>
     /\ IF readOnly \/ name \in DOMAIN tags
        THEN /\ UNCHANGED <<tags, nextTagId>>
             /\ SetReq(p, Finish(r, "fault", 0))
        ELSE /\ tags' = [n \in DOMAIN tags \cup {name} |->
                           IF n = name THEN nextTagId ELSE tags[n]]
             /\ nextTagId' = nextTagId + 1
             /\ SetReq(p, [r EXCEPT !.tagIds = Append(@, nextTagId),
                                    !.upTags = Tail(@),
                                    !.pc = IF Tail(r.upTags) = <<>> THEN "create" ELSE "ensure"])

\* await EnsureMaxSize(f.path, ...) rewrites the bytes of the stored file in
\* place (its path stays; SpecEnc follows that call on its own), then
\* { id, accessToken } = await ImageRepository.CreateImage({...})
UploadCreate(p) ==
  LET r == req[p]
      c == CreateImage(p, r.candidate.path, r.fsize)
  IN /\ r.pc = "create"
     /\ images' = c.images
     /\ nextId' = IF c.ok THEN nextId + 1 ELSE nextId
     /\ UNCHANGED <<imageTags, tags, nextTagId, files, nextPath, readOnly, enc>>
     /\ SetReq(p, IF ~c.ok THEN Finish(r, "fault", 0)
                  ELSE IF r.tagIds = <<>> THEN Finish(r, "created", c.id)
                  ELSE [r EXCEPT !.candidate.id = c.id, !.pc = "attach"])

\* await ImageRepository.AttachTags(id, tagIds): one INSERT per tag id
UploadAttach(p) ==
  LET r == req[p]
      a == AttachTag(r.candidate.id, Head(r.tagIds))
  IN /\ r.pc = "attach"
     /\ imageTags' = a.imageTags
     /\ UNCHANGED <<images, tags, nextId, nextTagId, files, nextPath, readOnly, enc>>
     /\ SetReq(p, IF ~a.ok THEN Finish(r, "fault", r.candidate.id)
                  ELSE IF Tail(r.tagIds) = <<>> THEN Finish(r, "created", r.candidate.id)
                  ELSE [r EXCEPT !.tagIds = Tail(@)])

(* --------------------------- environment ------------------------------ *)
\* a stored file is removed out-of-band
ExternalDelete(path) ==
  /\ path \in files
  /\ files' = files \ {path}
  /\ req' = [q \in Procs |-> Noise(req[q])]
  /\ UNCHANGED <<catalogVars, nextPath, readOnly, enc>>

\* the catalog stops accepting writes, and accepts them again
SetReadOnly ==
  /\ readOnly' = ~readOnly
  /\ UNCHANGED <<catalogVars, files, nextPath, req, enc>>

(* ------------------- EnsureMaxSize (size enforcer) -------------------- *)
\* const qualitySeq, const pngLevels
qualitySeq == <<85, 75, 65, 55, 45, 35, 25, 20>>
pngLevels == <<6, 7, 8, 9>>

Sizes == 1..MaxSize
\* meta.width; 0 is a width sharp does not report
Widths == 0..MaxWidth
\* meta.format; "" is a format sharp does not report
MetaFormats == {"", "jpeg", "png", "gif", "bmp", "svg"}
\* path.extname(filePath).toLowerCase()
Exts == {".jpg", ".bmp", ".img"}

\* Math.round(w * 0.85)
Round85(w) == (85 * w + 50) \div 100

\* faulty variant: the loop runs while (w >= 64)
RECURSIVE WidthLoopGe(_)
WidthLoopGe(w) == IF w >= 64 THEN <<w>> \o WidthLoopGe(Round85(w)) ELSE <<64>>

\* while (w > 64) { widthSteps.push(Math.round(w)); w = Math.round(w * 0.85) }
\* widthSteps.push(64)
RECURSIVE WidthLoop(_)
WidthLoop(w) == IF w > 64 THEN <<w>> \o WidthLoop(Round85(w)) ELSE <<64>>

\* a null width gives the single step null (0)
WidthSteps(width) == IF width # 0 THEN WidthLoop(width) ELSE <<0>>

\* const map = {...}; if (!format) format = map[ext] || 'jpeg'
ExtFormat(ext) ==
  CASE ext \in {".jpg", ".jpeg"} -> "jpeg"
    [] ext = ".png" -> "png"
    [] ext = ".webp" -> "webp"
    [] ext = ".gif" -> "gif"
    [] ext \in {".tif", ".tiff"} -> "tiff"
    [] ext = ".bmp" -> "bmp"
    [] OTHER -> "jpeg"

ResolveFormat(metaFormat, ext) ==
  IF metaFormat # "" THEN metaFormat ELSE ExtFormat(ext)

\* faulty variant: a format with no encoder is put through the quality ladder
LadderLenDefault(format) ==
  CASE format = "png" -> Len(pngLevels)
    [] format = "gif" -> 1
    [] OTHER -> Len(qualitySeq)

\* the encode attempts made at one width, by format
LadderLen(format) ==
  CASE format = "png" -> Len(pngLevels)
    [] format \in {"jpeg", "webp", "tiff"} -> Len(qualitySeq)
    [] format = "gif" -> 1
    [] OTHER -> 0

\* EnsureMaxSize(filePath, maxBytes) called on a file of origSize bytes
EncCall(ext, origSize, maxBytes, metaFormat, width) ==
  [pc |-> "stat", filePath |-> <<"upload", ext>>, maxBytes |-> maxBytes,
   origSize |-> origSize, disk |-> [f \in {<<"upload", ext>>} |-> origSize],
   metaFormat |-> metaFormat, width |-> width, format |-> "",
   widthSteps |-> <<>>, wi |-> 0, qi |-> 0, bestSize |-> 0, bestW |-> 0,
   attempts |-> 0, fitAt |-> 0, changed |-> FALSE, newSize |-> 0,
   failed |-> FALSE, produced |-> {}, writes |-> 0, calls |-> 1,
   prev |-> [changed |-> FALSE, newSize |-> 0]]

\* return { changed: false, newSize: <current size> }
EncUnchanged(e) ==
  [e EXCEPT !.pc = "done", !.changed = FALSE, !.newSize = e.disk[e.filePath]]

\* faulty variant: the budget test is missing
EncStatAlways ==
  /\ enc.pc = "stat"
  /\ enc' = [enc EXCEPT !.pc = "meta"]
  /\ UNCHANGED <<catalogVars, files, nextPath, readOnly, req>>

\* fs.statSync; if (origStat.size <= maxBytes) return unchanged
EncStat ==
  /\ enc.pc = "stat"
  /\ enc' = IF enc.disk[enc.filePath] <= enc.maxBytes
            THEN EncUnchanged(enc)
            ELSE [enc EXCEPT !.pc = "meta"]
  /\ UNCHANGED <<catalogVars, files, nextPath, readOnly, req>>

\* await input.metadata(), the format, the bmp return, the width steps
EncMetadata ==
  /\ enc.pc = "meta"
  /\ LET format == ResolveFormat(enc.metaFormat, enc.filePath[2])
         steps == WidthSteps(enc.width)
     IN enc' = IF format = "bmp"
               THEN EncUnchanged([enc EXCEPT !.format = format])
               ELSE [enc EXCEPT !.format = format, !.widthSteps = steps,
                                !.wi = 1, !.qi = 1, !.pc = "encode"]
  /\ UNCHANGED <<catalogVars, files, nextPath, readOnly, req>>

\* faulty variant: the catch block reports size 0
EncThrowsZero ==
  /\ enc.pc \in {"meta", "encode"}
  /\ enc.pc = "encode" => LadderLen(enc.format) > 0
  /\ enc' = [enc EXCEPT !.pc = "done", !.changed = FALSE, !.newSize = 0,
                        !.failed = TRUE]
  /\ UNCHANGED <<catalogVars, files, nextPath, readOnly, req>>

\* metadata() or an encode throws: the catch block reports the file as it is
EncThrows ==
  /\ enc.pc \in {"meta", "encode"}
  /\ enc.pc = "encode" => LadderLen(enc.format) > 0
  /\ enc' = EncUnchanged([enc EXCEPT !.failed = TRUE])
  /\ UNCHANGED <<catalogVars, files, nextPath, readOnly, req>>

\* faulty variant: the search gives up after one width
EncAfterWidthFirst(e) ==
  IF e.bestSize = 0 THEN EncUnchanged(e) ELSE [e EXCEPT !.pc = "write"]

\* where the search goes after the attempts at width step wi are over:
\* if (bestBuf && bestBuf.length <= maxBytes) break; after the loop,
\* if (!bestBuf) return unchanged, else write
EncAfterWidth(e) ==
  IF e.bestSize # 0 /\ e.bestSize <= e.maxBytes
  THEN [e EXCEPT !.pc = "write"]
  ELSE IF e.wi < Len(e.widthSteps)
       THEN [e EXCEPT !.wi = e.wi + 1, !.qi = 1]
       ELSE IF e.bestSize = 0
            THEN EncUnchanged(e)
            ELSE [e EXCEPT !.pc = "write"]

\* a format with no encoder: the loop body does nothing at this width
EncSkip ==
  /\ enc.pc = "encode"
  /\ LadderLen(enc.format) = 0
  /\ enc' = EncAfterWidth(enc)
  /\ UNCHANGED <<catalogVars, files, nextPath, readOnly, req>>

\* faulty variant: the quality ladder has no break, every step of it is
\* encoded before the width loop tests the best buffer
EncEncodeNoBreak(size) ==
  /\ enc.pc = "encode"
  /\ LadderLen(enc.format) > 0
  /\ LET better == enc.bestSize = 0 \/ size < enc.bestSize
         e1 == [enc EXCEPT !.attempts = enc.attempts + 1,
                           !.produced = enc.produced \cup {size},
                           !.bestSize = IF better THEN size ELSE enc.bestSize,
                           !.bestW = IF better THEN enc.widthSteps[enc.wi]
                                     ELSE enc.bestW,
                           !.fitAt = IF size <= enc.maxBytes
                                     THEN enc.attempts + 1 ELSE enc.fitAt]
     IN enc' = IF enc.qi = LadderLen(enc.format)
               THEN EncAfterWidth(e1)
               ELSE [e1 EXCEPT !.qi = enc.qi + 1]
  /\ UNCHANGED <<catalogVars, files, nextPath, readOnly, req>>

\* one toBuffer() giving size bytes: if (buf.length < bestSize) keep it;
\* if (buf.length <= maxBytes) break (the gif branch has no inner loop)
EncEncode(size) ==
  /\ enc.pc = "encode"
  /\ LadderLen(enc.format) > 0
  /\ LET better == enc.bestSize = 0 \/ size < enc.bestSize
         e1 == [enc EXCEPT !.attempts = enc.attempts + 1,
                           !.produced = enc.produced \cup {size},
                           !.bestSize = IF better THEN size ELSE enc.bestSize,
                           !.bestW = IF better THEN enc.widthSteps[enc.wi]
                                     ELSE enc.bestW,
                           !.fitAt = IF size <= enc.maxBytes
                                     THEN enc.attempts + 1 ELSE enc.fitAt]
     IN enc' = IF size <= enc.maxBytes \/ enc.qi = LadderLen(enc.format)
               THEN EncAfterWidth(e1)
               ELSE [e1 EXCEPT !.qi = enc.qi + 1]
  /\ UNCHANGED <<catalogVars, files, nextPath, readOnly, req>>

\* fs.writeFileSync(filePath, bestBuf); return { changed: true, newSize }.
\* The file now holds the best buffer: resize({ width: Math.max(64, w),
\* withoutEnlargement: true }) gave it the smaller of its width and the step.
EncWrite ==
  /\ enc.pc = "write"
  /\ enc' = [enc EXCEPT !.pc = "done", !.changed = TRUE,
                        !.disk = [enc.disk EXCEPT ![enc.filePath] = enc.bestSize],
                        !.newSize = enc.bestSize,
                        !.writes = enc.writes + 1,
                        !.width = IF enc.bestW # 0 /\ enc.bestW < enc.width
                                  THEN enc.bestW ELSE enc.width]
  /\ UNCHANGED <<catalogVars, files, nextPath, readOnly, req>>

\* EnsureMaxSize called again on the file the previous call left
EncAgain ==
  /\ enc.pc = "done"
  /\ enc.calls < MaxCalls
  /\ enc' = [EncCall(enc.filePath[2], enc.disk[enc.filePath], enc.maxBytes,
                     enc.metaFormat, enc.width)
             EXCEPT !.calls = enc.calls + 1, !.writes = enc.writes,
                    !.prev = [changed |-> enc.changed, newSize |-> enc.newSize]]
  /\ UNCHANGED <<catalogVars, files, nextPath, readOnly, req>>

(* ------- batch ingestion: UploadLocal and UploadByUrl, per item ------- *)
\* what EnsureMaxSize finds when it opens a stored file
FileKinds ==
  {[ext |-> ".img", metaFormat |-> "gif", width |-> MaxWidth],
   [ext |-> ".bmp", metaFormat |-> "", width |-> 0],
   [ext |-> ".img", metaFormat |-> "svg", width |-> 0]}

\* created.push({ id, url: `/api/images/${accessToken}` })
Created(r, id) ==
  [ok |-> TRUE, item |-> r.item, id |-> id, url |-> GenToken(id)]

\* created.push({ error: `下载失败: ${url}` })
Failed(r, why) ==
  [ok |-> FALSE, item |-> r.item, id |-> 0, url |-> why]

\* the end of one loop iteration that pushed entry: the next item, or
\* res.json({ images: created }) after the last
NextItem(r, entry) ==
  LET r1 == [r EXCEPT !.created = Append(@, entry), !.items = Tail(@),
                      !.todo = <<>>]
  IN IF r1.items = <<>> THEN Finish(r1, "created", 0)
     ELSE [r1 EXCEPT !.pc = "create"]

\* faulty variant: the catch of UploadByUrl ends the batch
OnItemErrorAbort(r, why) == Finish(r, "fault", 0)

\* an exception inside the loop body: UploadByUrl catches it per item,
\* UploadLocal has no try and the handler's promise rejects
OnItemError(r, why) ==
  IF r.op = "url" THEN NextItem(r, Failed(r, why)) ELSE Finish(r, "fault", 0)

\* POST /api/images/upload with the n files multer has stored (the size
\* multer reports for a file is drawn when the loop reaches the file)
StartUploadBatch(p, tagList, n, budget) ==
  /\ CanStart(p)
  /\ n >= 1
  /\ files' = files \cup (nextPath..(nextPath + n - 1))
  /\ nextPath' = nextPath + n
  /\ UNCHANGED <<catalogVars, readOnly, enc>>
  /\ SetReq(p, [Idle EXCEPT
       !.op = "local", !.upTags = tagList, !.arg = n, !.budget = budget,
       !.tagNames = {tagList[k] : k \in DOMAIN tagList},
       !.pc = IF tagList = <<>> THEN "create" ELSE "ensure",
       !.items = [k \in 1..n |-> [path |-> nextPath + k - 1, size |-> 0]],
       !.snap = Snapshot, !.quiet = FALSE])

\* POST /api/images/upload-url with n URLs
StartUploadByUrl(p, tagList, n, budget) ==
  /\ CanStart(p)
  /\ n >= 1
  /\ UNCHANGED <<catalogVars, files, nextPath, readOnly, enc>>
  /\ Move(p, [Idle EXCEPT
       !.op = "url", !.upTags = tagList, !.arg = n, !.budget = budget,
       !.tagNames = {tagList[k] : k \in DOMAIN tagList},
       !.pc = IF tagList = <<>> THEN "create" ELSE "ensure",
       !.items = [k \in 1..n |-> [path |-> 0, size |-> 0]],
       !.snap = Snapshot, !.quiet = FALSE])

\* UploadByUrl: await axios.get(url) throws, or its body of size bytes is
\* written to a fresh path by fs.writeFileSync
ItemFetch(p, fetched, size) ==
  LET r == [req[p] EXCEPT !.item = @ + 1]
  IN /\ req[p].op = "url" /\ req[p].pc = "create"
     /\ UNCHANGED <<catalogVars, readOnly, enc>>
     /\ IF ~fetched
        THEN /\ UNCHANGED <<files, nextPath>>
             /\ SetReq(p, OnItemError(r, "fetch"))
        ELSE /\ files' = files \cup {nextPath}
             /\ nextPath' = nextPath + 1
             /\ SetReq(p, [r EXCEPT !.pc = "resize", !.fsize = size,
                             !.candidate = [id |-> 0, path |-> nextPath, owner |-> p]])

\* result = await ImageController.EnsureMaxSize(path, 256 * 1024) is called
ItemResize(p, kind, fileSize) ==
  LET r == req[p]
      f == [Head(r.items) EXCEPT !.size = fileSize]
  IN /\ \/ r.op = "local" /\ r.pc = "create"
        \/ r.op = "url" /\ r.pc = "resize"
     /\ enc' = EncCall(kind.ext, IF r.op = "local" THEN f.size ELSE r.fsize,
                       r.budget, kind.metaFormat, kind.width)
     /\ UNCHANGED <<catalogVars, files, nextPath, readOnly>>
     /\ Move(p, IF r.op = "local"
                THEN [r EXCEPT !.pc = "resizing", !.item = @ + 1, !.fsize = f.size,
                        !.candidate = [id |-> 0, path |-> f.path, owner |-> p]]
                ELSE [r EXCEPT !.pc = "resizing"])

\* faulty variant: the size the file had before EnsureMaxSize is stored
FinalSizeStale(r) == r.fsize

\* if (result.changed) size = result.newSize; UploadByUrl starts from
\* fs.statSync(outPath).size, UploadLocal from multer's f.size
FinalSize(r) ==
  IF enc.changed THEN enc.newSize
  ELSE IF r.op = "url" THEN enc.disk[enc.filePath] ELSE r.fsize

\* EnsureMaxSize has returned: { id, accessToken } = await CreateImage({...})
ItemCreate(p) ==
  LET r == [req[p] EXCEPT !.encFailed = enc.failed]
      c == CreateImage(p, r.candidate.path, FinalSize(r))
      entry == Created(r, c.id)
  IN /\ req[p].op \in {"local", "url"} /\ req[p].pc = "resizing"
     /\ enc.pc = "done"
     /\ images' = c.images
     /\ nextId' = IF c.ok THEN nextId + 1 ELSE nextId
     /\ enc' = NoEnc
     /\ UNCHANGED <<imageTags, tags, nextTagId, files, nextPath, readOnly>>
     /\ SetReq(p, IF ~c.ok THEN OnItemError(r, "store")
                  ELSE IF r.tagIds = <<>> THEN NextItem(r, entry)
                  ELSE [r EXCEPT !.candidate.id = c.id, !.todo = r.tagIds,
                                 !.pc = "attach"])

\* faulty variant: only the first tag id is attached
ItemAttachFirst(p) ==
  LET r == req[p]
      a == AttachTag(r.candidate.id, Head(r.todo))
  IN /\ r.op \in {"local", "url"} /\ r.pc = "attach"
     /\ imageTags' = a.imageTags
     /\ UNCHANGED <<images, tags, nextId, nextTagId, files, nextPath, readOnly, enc>>
     /\ SetReq(p, IF ~a.ok THEN OnItemError(r, "store")
                  ELSE NextItem(r, Created(r, r.candidate.id)))

\* await ImageRepository.AttachTags(id, tagIds): one INSERT per tag id
ItemAttach(p) ==
  LET r == req[p]
      a == AttachTag(r.candidate.id, Head(r.todo))
      entry == Created(r, r.candidate.id)
      last == Tail(r.todo) = <<>>
  IN /\ r.op \in {"local", "url"} /\ r.pc = "attach"
     /\ imageTags' = a.imageTags
     /\ UNCHANGED <<images, tags, nextId, nextTagId, files, nextPath, readOnly, enc>>
     /\ SetReq(p, IF ~a.ok THEN OnItemError(r, "store")
                  ELSE IF last THEN NextItem(r, entry)
                  ELSE [r EXCEPT !.todo = Tail(@)])

(* ------------------ tag normalisation (NormalizeTagsUtf8) ------------- *)
\* A string is a sequence of UTF-16 code units.  The characters a raw tag
\* input is drawn from: space, comma, e, combining acute, the Latin-1
\* characters of the UTF-8 bytes C3 83 C2 A9, fullwidth comma, a CJK character
TagChars == {32, 44, 101, 769, 195, 131, 194, 169, 65292, 20013}

\* the characters String.prototype.trim removes
WhiteSpace ==
  {9, 10, 11, 12, 13, 32, 160, 5760, 8232, 8233, 8239, 8287, 12288, 65279}
    \cup (8192..8202)

\* s.split(/[\,，]/)
Separators == {44, 65292}

RECURSIVE SplitFrom(_, _)
\* the segments of s, cur being the segment read so far
SplitFrom(s, cur) ==
  IF s = <<>> THEN <<cur>>
  ELSE IF Head(s) \in Separators THEN <<cur>> \o SplitFrom(Tail(s), <<>>)
  ELSE SplitFrom(Tail(s), Append(cur, Head(s)))

Split(s) == SplitFrom(s, <<>>)

RECURSIVE TrimStart(_)
TrimStart(s) ==
  IF s # <<>> /\ Head(s) \in WhiteSpace THEN TrimStart(Tail(s)) ELSE s

RECURSIVE TrimEnd(_)
TrimEnd(s) ==
  IF s # <<>> /\ s[Len(s)] \in WhiteSpace
  THEN TrimEnd(SubSeq(s, 1, Len(s) - 1)) ELSE s

Trim(s) == TrimEnd(TrimStart(s))

NonEmpty(s) == s # <<>>

\* Buffer.from(s, 'latin1'): the low byte of every code unit
Latin1Bytes(s) == [k \in DOMAIN s |-> s[k] % 256]

IsCont(b, lo, hi) == b >= lo /\ b <= hi

\* the range allowed for the byte that follows lead byte b
SecondLo(b) == IF b = 224 THEN 160 ELSE IF b = 240 THEN 144 ELSE 128
SecondHi(b) == IF b = 237 THEN 159 ELSE IF b = 244 THEN 143 ELSE 191

\* number of continuation bytes lead byte b asks for; 0 for an invalid lead
Needed(b) ==
  IF b >= 194 /\ b <= 223 THEN 1
  ELSE IF b >= 224 /\ b <= 239 THEN 2
  ELSE IF b >= 240 /\ b <= 244 THEN 3
  ELSE 0

\* the code units of code point cp
Units(cp) ==
  IF cp < 65536 THEN <<cp>>
  ELSE <<55296 + ((cp - 65536) \div 1024), 56320 + ((cp - 65536) % 1024)>>

RECURSIVE Utf8Decode(_)
\* buf.toString('utf8'): every maximal ill-formed part becomes U+FFFD
Utf8Decode(b) ==
  IF b = <<>> THEN <<>>
  ELSE LET b1 == b[1]
           n == Needed(b1)
           ok2 == Len(b) >= 2 /\ IsCont(b[2], SecondLo(b1), SecondHi(b1))
           ok3 == ok2 /\ Len(b) >= 3 /\ IsCont(b[3], 128, 191)
           ok4 == ok3 /\ Len(b) >= 4 /\ IsCont(b[4], 128, 191)
           rest(k) == Utf8Decode(SubSeq(b, k + 1, Len(b)))
       IN IF b1 < 128 THEN <<b1>> \o rest(1)
          ELSE IF n = 0 \/ ~ok2 THEN <<65533>> \o rest(1)
          ELSE IF n = 1 THEN <<(b1 - 192) * 64 + (b[2] - 128)>> \o rest(2)
          ELSE IF ~ok3 THEN <<65533>> \o rest(2)
          ELSE IF n = 2
               THEN <<(b1 - 224) * 4096 + (b[2] - 128) * 64 + (b[3] - 128)>>
                      \o rest(3)
          ELSE IF ~ok4 THEN <<65533>> \o rest(3)
          ELSE Units((b1 - 240) * 262144 + (b[2] - 128) * 4096
                     + (b[3] - 128) * 64 + (b[4] - 128)) \o rest(4)

Count(s, S) == Cardinality({k \in DOMAIN s : s[k] \in S})

\* /[一-龥]/ and /[ÃÂæçè]/
Cjk == 19968..40869
MojibakeChars == {195, 194, 230, 231, 232}

ScoreString(text) == Count(text, Cjk) * 2 - Count(text, MojibakeChars)

FixUtf8Mojibake(text) ==
  LET trial == Utf8Decode(Latin1Bytes(text))
  IN IF ScoreString(trial) > ScoreString(text) THEN trial ELSE text

\* canonical composition of a base character with U+0301
Composite(c) == IF c = 101 THEN 233 ELSE IF c = 194 THEN 7844 ELSE 0

RECURSIVE NfcFrom(_, _)
\* out is the normalised prefix
NfcFrom(s, out) ==
  IF s = <<>> THEN out
  ELSE IF Head(s) = 769 /\ out # <<>> /\ Composite(out[Len(out)]) # 0
       THEN NfcFrom(Tail(s), [out EXCEPT ![Len(out)] = Composite(@)])
       ELSE NfcFrom(Tail(s), Append(out, Head(s)))

\* seg.normalize('NFC'), on the characters that TagChars and their decodings
\* can produce
Nfc(s) == NfcFrom(s, <<>>)

RECURSIVE Segments(_)
\* the trimmed non-empty segments of all the strings of parts, in order
Segments(parts) ==
  IF parts = <<>> THEN <<>>
  ELSE LET segs == Split(Head(parts))
       IN SelectSeq([k \in DOMAIN segs |-> Trim(segs[k])], NonEmpty)
            \o Segments(Tail(parts))

RECURSIVE Dedup(_, _)
Dedup(list, seen) ==
  IF list = <<>> THEN <<>>
  ELSE IF Head(list) \in seen THEN Dedup(Tail(list), seen)
  ELSE <<Head(list)>> \o Dedup(Tail(list), seen \cup {Head(list)})

\* parts is rawTags when it is an array, [rawTags] when it is a string
NormalizeTagsUtf8(parts) ==
  LET segs == Segments(parts)
      list == [k \in DOMAIN segs |-> Nfc(FixUtf8Mojibake(segs[k]))]
  IN Dedup(SelectSeq(list, NonEmpty), {})

\* a handler normalises the tags field of its request
NormalizeOnce(p) ==
  /\ req[p].pc = "normalize"
  /\ Move(p, [req[p] EXCEPT !.once = NormalizeTagsUtf8(req[p].rawTags),
                            !.pc = "renormalize"])
  /\ UNCHANGED <<catalogVars, files, nextPath, readOnly, enc>>

\* a later request sends the normalised list as its tags field
NormalizeTwice(p) ==
  /\ req[p].pc = "renormalize"
  /\ Move(p, Finish([req[p] EXCEPT !.twice = NormalizeTagsUtf8(req[p].once)],
                    "tags", 0))
  /\ UNCHANGED <<catalogVars, files, nextPath, readOnly, enc>>

(* --------------------------- specification ---------------------------- *)

\* the catalog found at start-up: n records stored by earlier runs under tag x
InitCatalog(n) ==
  /\ images = [i \in 1..n |-> [owner |-> 2, path |-> i, size |-> 1,
                                token |-> GenToken(i)]]
  /\ imageTags = {<<i, 1>> : i \in 1..n}
  /\ tags = [t \in {"x"} |-> 1]
  /\ nextId = n + 1
  /\ nextTagId = 2
  /\ files = 1..n
  /\ nextPath = n + 1

Init ==
  /\ \E n \in 0..MaxInit : InitCatalog(n)
  /\ readOnly = FALSE
  /\ req = [p \in Procs |-> Idle]
  /\ enc = NoEnc

Step(p) ==
  \/ \E f \in Filters, random \in BOOLEAN : StartGetImages(p, f, random)
  \/ \E id \in 1..(MaxInit + MaxNew) : StartGetRaw(p, id)
  \/ \E id \in 1..(MaxInit + MaxNew) : StartGetImageByToken(p, id)
  \/ \E id \in 1..(MaxInit + MaxNew) : StartDeleteImage(p, id)
  \/ \E t \in UploadTags : StartUploadLocal(p, t)
  \/ \E f \in Filters : StartListImages(p, f)
  \/ ListQuery(p)
  \/ ListFilter(p)
  \/ Draw(p)
  \/ List(p)
  \/ Check(p)
  \/ Del(p)
  \/ SendImageFile(p)
  \/ SendStream(p)
  \/ SendMissing(p)
  \/ Lookup(p)
  \/ Unlink(p)
  \/ DeleteRow(p)
  \/ EnsureTagsSelect(p)
  \/ EnsureTagsInsert(p)
  \/ UploadCreate(p)
  \/ UploadAttach(p)

Next ==
  \/ \E p \in Procs : Step(p)
  \/ \E path \in 1..(MaxInit + MaxNew) : ExternalDelete(path)

Spec == Init /\ [][Next]_vars

\* one GetImages request served while another client uploads an untagged
\* file, the files vanish out-of-band and the catalog may refuse writes
Resolve(p) ==
  \/ \E f \in Filters, random \in BOOLEAN : StartGetImages(p, f, random)
  \/ Draw(p)
  \/ List(p)
  \/ Check(p)
  \/ Del(p)
  \/ SendImageFile(p)
  \/ SendStream(p)
  \/ SendMissing(p)

Ingest(p) ==
  \/ StartUploadLocal(p, <<>>)
  \/ UploadCreate(p)

NextFault ==
  \/ Resolve(1)
  \/ Ingest(2)
  \/ \E path \in 1..(MaxInit + MaxNew) : ExternalDelete(path)
  \/ SetReadOnly

SpecFault == Init /\ [][NextFault]_vars

\* the client of process p sends its next request once the last is answered
NextRequest(p) ==
  /\ req[p].pc = "done"
  /\ req' = [req EXCEPT ![p] = Idle]
  /\ UNCHANGED <<catalogVars, files, nextPath, readOnly, enc>>

\* one GetImages request served while a second client deletes records and
\* uploads, one request after the other
Client(p) ==
  \/ \E id \in 1..(MaxInit + MaxNew) : StartDeleteImage(p, id)
  \/ Lookup(p)
  \/ Unlink(p)
  \/ DeleteRow(p)
  \/ Ingest(p)
  \/ NextRequest(p)

NextStale ==
  \/ Resolve(1)
  \/ Client(2)

\* the catalog holds MaxInit records when the requests arrive
InitStale ==
  /\ InitCatalog(MaxInit)
  /\ readOnly = FALSE
  /\ req = [p \in Procs |-> Idle]
  /\ enc = NoEnc

SpecStale == InitStale /\ [][NextStale]_vars

\* one EnsureMaxSize call on a stored file, the encoder free to produce any
\* size or to throw at every attempt
InitEnc ==
  /\ InitCatalog(0)
  /\ readOnly = FALSE
  /\ req = [p \in Procs |-> Idle]
  /\ \E ext \in Exts, origSize \in Sizes, maxBytes \in Sizes,
        metaFormat \in MetaFormats, width \in Widths :
       enc = EncCall(ext, origSize, maxBytes, metaFormat, width)

NextEnc ==
  \/ EncStat
  \/ EncMetadata
  \/ EncThrows
  \/ EncSkip
  \/ \E size \in Sizes : EncEncode(size)
  \/ EncWrite
  \/ EncAgain

SpecEnc == InitEnc /\ [][NextEnc]_vars

\* one ingestion request of up to MaxBatch items with its EnsureMaxSize
\* calls, while the remote hosts may fail and the catalog may refuse writes
Batch(p) ==
  \/ \E t \in UploadTags, n \in 1..MaxBatch, budget \in Sizes :
       StartUploadBatch(p, t, n, budget)
  \/ \E t \in UploadTags, n \in 1..MaxBatch, budget \in Sizes :
       StartUploadByUrl(p, t, n, budget)
  \/ EnsureTagsSelect(p)
  \/ EnsureTagsInsert(p)
  \/ \E fetched \in BOOLEAN, size \in Sizes : ItemFetch(p, fetched, size)
  \/ \E kind \in FileKinds, fileSize \in Sizes : ItemResize(p, kind, fileSize)
  \/ ItemCreate(p)
  \/ ItemAttach(p)

EncRun ==
  \/ EncStat
  \/ EncMetadata
  \/ EncThrows
  \/ EncSkip
  \/ \E size \in Sizes : EncEncode(size)
  \/ EncWrite

InitIngest ==
  /\ InitCatalog(1)
  /\ readOnly = FALSE
  /\ req = [p \in Procs |-> Idle]
  /\ enc = NoEnc

NextIngest ==
  \/ Batch(1)
  \/ EncRun
  \/ SetReadOnly

SpecIngest == InitIngest /\ [][NextIngest]_vars

\* one raw tags field of up to MaxLen characters, normalised and then
\* normalised again
RECURSIVE StringsUpTo(_)
StringsUpTo(n) ==
  IF n = 0 THEN {<<>>}
  ELSE LET shorter == StringsUpTo(n - 1)
       IN shorter \cup {Append(t, c) : t \in shorter, c \in TagChars}

InitTags ==
  /\ InitCatalog(0)
  /\ readOnly = FALSE
  /\ enc = NoEnc
  /\ \E raw \in StringsUpTo(MaxLen) :
       req = [p \in Procs |->
                IF p = 1 THEN [Idle EXCEPT !.op = "tags", !.pc = "normalize",
                                           !.rawTags = <<raw>>]
                ELSE Idle]

NextTags ==
  \/ NormalizeOnce(1)
  \/ NormalizeTwice(1)

SpecTags == InitTags /\ [][NextTags]_vars

(* ======================= retrieval: claims ============================ *)
IsResolve(r) == r.op \in {"newest", "random"}
Gone(id) == id \notin DOMAIN images /\ LinksOf(id) = {}
\* the request has run the lazy delete of every candidate it found missing
PastDeletes(r) == ~(r.pc \in {"del", "senddel"})

\* the matching records of the request's snapshot whose file existed
LiveAtStart(r) ==
  {i \in MatchIn(r.snap.images, r.snap.imageTags, r.snap.tags, r.tagNames) :
     r.snap.images[i].path \in r.snap.files}

(* C1: a newest or random resolve never answers with a record whose file   *)
(* was missing when the resolve checked it: the answer is sent in a step   *)
(* in which the file exists, the answered record is none of those the call *)
(* found missing or deleted, and every record the call found missing has   *)
(* lost its catalog row and its tag associations once its delete has run.  *)
C1_Inv ==
  \A p \in Procs :
    LET r == req[p]
    IN IsResolve(r) =>
         /\ r.result.kind = "image" =>
              r.result.id \notin r.seen /\ r.result.id \notin r.deleted
         /\ \A id \in r.seen :
              (PastDeletes(r) \/ id # r.candidate.id) => id \in r.deleted
         /\ \A id \in r.deleted : Gone(id)

C1_Send ==
  \A p \in Procs :
    (IsResolve(req[p]) /\ req[p].result.kind = "none" /\ req'[p].result.kind = "image")
      => /\ req'[p].result.id = req[p].candidate.id
         /\ existsSync(req[p].candidate.path)

C1_NeverReturnsMissing == [](C1_Inv) /\ [][C1_Send]_vars

C1_Witness ==
  \E p \in Procs :
    /\ IsResolve(req[p]) /\ req[p].result.kind = "image"
    /\ req[p].deleted # {}
    /\ \E q \in Procs \ {p} : req[q].op = "upload"

(* C2: with no concurrent mutation during the call, a newest resolve       *)
(* returns the matching record of greatest id among those whose file       *)
(* exists, and not-found exactly when no matching record has a file.       *)
C2_NewestReturnsGreatestLive ==
  \A p \in Procs :
    LET r == req[p]
    IN (r.op = "newest" /\ r.pc = "done" /\ r.quiet) =>
         IF LiveAtStart(r) = {}
         THEN r.result = [kind |-> "notfound", id |-> 0]
         ELSE r.result = [kind |-> "image", id |-> SetMax(LiveAtStart(r))]

C2_Witness ==
  \E p \in Procs :
    LET r == req[p]
    IN /\ r.op = "newest" /\ r.pc = "done" /\ r.quiet
       /\ r.result.kind = "image"
       /\ \E i \in DOMAIN r.snap.images :
            i > r.result.id /\ r.snap.images[i].path \in r.snap.files
       /\ r.deleted # {}

C2_WitnessNotFound ==
  \E p \in Procs :
    LET r == req[p]
    IN /\ r.op = "newest" /\ r.pc = "done" /\ r.quiet
       /\ r.result.kind = "notfound" /\ r.deleted # {}

(* C3: after a newest resolve that ran without concurrent mutation returns *)
(* R, every matching record with a greater id is removed with its tag      *)
(* associations, and every matching record with a smaller id (and R) is    *)
(* still present with its associations unchanged.                          *)
C3_NewestFrame ==
  \A p \in Procs :
    LET r == req[p]
        M == MatchIn(r.snap.images, r.snap.imageTags, r.snap.tags, r.tagNames)
    IN (r.op = "newest" /\ r.pc = "done" /\ r.quiet /\ r.result.kind = "image") =>
         \A i \in M :
           IF i > r.result.id
           THEN Gone(i)
           ELSE /\ i \in DOMAIN images
                /\ images[i] = r.snap.images[i]
                /\ LinksOf(i) = {l \in r.snap.imageTags : l[1] = i}

\* scenario B: three records under x, the newest's file lost, the second-newest
\* answered, two records left under x
C3_Witness ==
  \E p \in Procs :
    LET r == req[p]
    IN /\ r.op = "newest" /\ r.pc = "done" /\ r.quiet /\ r.tagNames = {"x"}
       /\ Cardinality(MatchIn(r.snap.images, r.snap.imageTags, r.snap.tags, {"x"})) = 3
       /\ r.result.kind = "image"
       /\ Cardinality(r.deleted) = 1
       /\ Cardinality(Matches({"x"})) = 2
       /\ \E i \in Matches({"x"}) : i < r.result.id

(* C4: a random resolve makes at most 50 draws and at most 50 lazy         *)
(* deletes, whether the deletes succeed or fail and whatever is ingested   *)
(* meanwhile; it is never blocked before it has answered, and when no      *)
(* drawn candidate had its file it answers not-found.                      *)
ResolveStep(p) ==
  Draw(p) \/ Check(p) \/ Del(p) \/ SendImageFile(p) \/ SendStream(p) \/ SendMissing(p)

C4_RandomBounded ==
  \A p \in Procs :
    LET r == req[p]
    IN r.op = "random" =>
         /\ r.draws <= maxTries /\ r.dels <= maxTries /\ r.tries <= maxTries
         /\ r.pc # "done" => ENABLED ResolveStep(p)
         /\ (r.pc = "done" /\ ~r.hit) => r.result = [kind |-> "notfound", id |-> 0]

\* the cap is reached: 50 draws, 50 failed cleanups, not-found
C4_Witness ==
  \E p \in Procs :
    LET r == req[p]
    IN /\ r.op = "random" /\ r.pc = "done" /\ r.result.kind = "notfound"
       /\ r.draws = maxTries /\ r.dels = maxTries /\ r.deleted = {}
       /\ Matches(r.tagNames) # {}

(* C5: a random resolve whose filter matches no record makes exactly one   *)
(* draw, deletes nothing, consumes no retry and answers not-found; catalog *)
(* and files are as they were.                                             *)
Unchanged(snap) ==
  /\ images = snap.images /\ imageTags = snap.imageTags
  /\ tags = snap.tags /\ files = snap.files

C5_RandomNoMatch ==
  \A p \in Procs :
    LET r == req[p]
    IN (r.op = "random" /\ r.pc = "done" /\ r.quiet
        /\ MatchIn(r.snap.images, r.snap.imageTags, r.snap.tags, r.tagNames) = {}) =>
         /\ r.draws = 1 /\ r.dels = 0 /\ r.tries = 0 /\ r.checks = 0
         /\ r.result = [kind |-> "notfound", id |-> 0]
         /\ Unchanged(r.snap)

C5_Witness ==
  \E p \in Procs :
    LET r == req[p]
    IN /\ r.op = "random" /\ r.pc = "done" /\ r.quiet
       /\ r.tagNames = {"y"} /\ Matches({"y"}) = {}
       /\ images # EmptyFcn /\ files # {}

(* C6: when two requests both find the same record's file missing, both    *)
(* deletes run without error, the later one changing nothing; neither      *)
(* request faults in its cleanup, the record and its associations are      *)
(* gone, and a lazy delete changes no other row, association or file.      *)
PastDeleteOf(r, id) == id \in r.seen /\ ~(r.pc \in {"del", "senddel"} /\ r.candidate.id = id)

C6_Inv ==
  \A p \in Procs : \A q \in Procs \ {p} :
    \A id \in req[p].seen \cap req[q].seen :
      (PastDeleteOf(req[p], id) /\ PastDeleteOf(req[q], id)) =>
        /\ id \in req[p].deleted /\ id \in req[q].deleted
        /\ Gone(id)

C6_LazyDeleteStep ==
  \A p \in Procs :
    req'[p].dels # req[p].dels =>
      LET id == req[p].candidate.id
      IN /\ images' = ImagesWithout(id)
         /\ imageTags' = LinksWithout(id)
         /\ tags' = tags /\ files' = files
         /\ (id \notin DOMAIN images => images' = images /\ imageTags' = imageTags)
         /\ req'[p].result.kind # "fault"

C6_DoubleDelete == [](C6_Inv) /\ [][C6_LazyDeleteStep]_vars

C6_Witness ==
  \E id \in req[1].deleted \cap req[2].deleted :
    /\ req[1].pc = "done" /\ req[2].pc = "done"
    /\ IsResolve(req[1]) /\ IsResolve(req[2])
    /\ images # EmptyFcn

(* C7: a lookup by id or by token makes one existence check and no retry.  *)
(* Run without concurrent mutation: record and file present, the image is  *)
(* answered and the catalog unchanged; record present and file missing,    *)
(* not-found and the record and its associations removed; no record,       *)
(* not-found and the catalog unchanged.                                    *)
RemovedExactly(snap, D) ==
  /\ images = [i \in DOMAIN snap.images \ D |-> snap.images[i]]
  /\ imageTags = {l \in snap.imageTags : l[1] \notin D}
  /\ tags = snap.tags

C7_DirectLookup ==
  \A p \in Procs :
    LET r == req[p]
    IN (r.op \in {"raw", "token"} /\ r.pc = "done" /\ r.quiet) =>
         /\ files = r.snap.files
         /\ r.draws = 0 /\ r.tries = 0
         /\ IF r.arg \notin DOMAIN r.snap.images
            THEN /\ r.result = [kind |-> "notfound", id |-> 0]
                 /\ r.checks = 0 /\ r.dels = 0
                 /\ Unchanged(r.snap)
            ELSE IF r.snap.images[r.arg].path \in r.snap.files
            THEN /\ r.result = [kind |-> "image", id |-> r.arg]
                 /\ r.checks = 1 /\ r.dels = 0
                 /\ Unchanged(r.snap)
            ELSE /\ r.result = [kind |-> "missing", id |-> r.arg]
                 /\ r.checks = 1 /\ r.dels = 1
                 /\ RemovedExactly(r.snap, {r.arg})

C7_Witness ==
  \E p \in Procs :
    LET r == req[p]
    IN /\ r.op = "token" /\ r.pc = "done" /\ r.quiet
       /\ r.result.kind = "missing"
       /\ images # EmptyFcn

C7_WitnessRaw ==
  \E p \in Procs :
    LET r == req[p]
    IN /\ r.op = "raw" /\ r.pc = "done" /\ r.quiet
       /\ r.result.kind = "missing"
       /\ images # EmptyFcn

(* C8: explicit deletion and the lazy delete leave the same state behind:  *)
(* the row absent, its associations absent, no file at its storage path,   *)
(* and every other record, association and file unchanged.                 *)
DeletedExactly(snap, D) ==
  /\ RemovedExactly(snap, D)
  /\ \A d \in D : snap.images[d].path \notin files
  /\ files = snap.files \ {snap.images[d].path : d \in D}

C8_WitnessExplicit ==
  \E p \in Procs :
    /\ req[p].op = "delete" /\ req[p].result.kind = "deleted" /\ req[p].quiet
    /\ images # EmptyFcn /\ files # {}

(* C9: in every reachable state every image-tag association refers to an   *)
(* image row and a tag row that exist; a step that removes an image row    *)
(* removes its associations in the same step.                              *)
C9_Inv ==
  \A l \in imageTags :
    /\ l[1] \in DOMAIN images
    /\ \E n \in DOMAIN tags : tags[n] = l[2]

C9_Cascade ==
  \A i \in DOMAIN images :
    i \notin DOMAIN images' => \A l \in imageTags' : l[1] # i

C9_ReferentialIntegrity == [](C9_Inv) /\ [][C9_Cascade]_vars

\* an upload's AttachTags is rejected because its record was deleted meanwhile,
\* while another record keeps its associations
C9_Witness ==
  \E p \in Procs :
    /\ req[p].op = "upload" /\ req[p].result.kind = "fault"
    /\ req[p].candidate.id # 0
    /\ req[p].candidate.id \notin DOMAIN images
    /\ imageTags # {}

(* ===================== size enforcer: claims ========================== *)
(* C10: when EnsureMaxSize has returned from a call on an oversized file,  *)
(* the file is still the only one at its path, its size on disk is at most *)
(* the size before the call, and so is the reported newSize, whatever the  *)
(* encoder produced.                                                       *)
C10_NeverIncreases ==
  (enc.pc = "done" /\ enc.origSize > enc.maxBytes) =>
    /\ DOMAIN enc.disk = {enc.filePath}
    /\ enc.disk[enc.filePath] <= enc.origSize
    /\ enc.newSize <= enc.origSize

(* C11: when EnsureMaxSize has returned from a call on an oversized file   *)
(* of a re-encodable format in which no step failed, the file has been     *)
(* replaced and newSize is the size now on disk; if some attempt produced  *)
(* an encoding within the budget the file is within the budget, otherwise  *)
(* every width and ladder step was attempted and the file is the smallest  *)
(* encoding produced.                                                      *)
Reencodable == {"jpeg", "png", "webp", "tiff", "gif"}
SetMin(S) == CHOOSE m \in S : \A x \in S : m <= x
FullSearch(e) == Len(e.widthSteps) * LadderLen(e.format)

C11_BestEffort ==
  (/\ enc.pc = "done" /\ enc.origSize > enc.maxBytes
   /\ enc.format \in Reencodable /\ ~enc.failed) =>
    /\ enc.changed
    /\ enc.produced # {}
    /\ enc.newSize = enc.disk[enc.filePath]
    /\ IF \E size \in enc.produced : size <= enc.maxBytes
       THEN enc.disk[enc.filePath] <= enc.maxBytes
       ELSE /\ enc.attempts = FullSearch(enc)
            /\ enc.disk[enc.filePath] = SetMin(enc.produced)

\* nothing fits over two widths and a ladder: the smallest encoding is kept
C11_Witness ==
  /\ enc.pc = "done" /\ enc.changed /\ ~enc.failed
  /\ Len(enc.widthSteps) > 1 /\ LadderLen(enc.format) > 1
  /\ enc.attempts = FullSearch(enc)
  /\ Cardinality(enc.produced) > 1
  /\ enc.disk[enc.filePath] > enc.maxBytes

\* an attempt at a narrower width is the first to fit
C11_WitnessFit ==
  /\ enc.pc = "done" /\ enc.changed /\ enc.wi > 1
  /\ enc.disk[enc.filePath] <= enc.maxBytes

(* C12: a call on a file within the budget returns changed = false with    *)
(* newSize the current size, makes no encode attempt and never rewrites    *)
(* the file; a second call in a row returns what the first returned.       *)
C12_Inv ==
  (enc.pc = "done" /\ enc.origSize <= enc.maxBytes) =>
    /\ ~enc.changed
    /\ enc.attempts = 0
    /\ enc.newSize = enc.origSize
    /\ enc.disk[enc.filePath] = enc.origSize
    /\ (enc.calls > 1 /\ ~enc.prev.changed) =>
         enc.prev = [changed |-> enc.changed, newSize |-> enc.newSize]

C12_NoRewrite ==
  (enc.pc # "off" /\ enc.origSize <= enc.maxBytes /\ enc'.calls = enc.calls) =>
    /\ enc'.disk = enc.disk
    /\ enc'.writes = enc.writes

C12_UnderBudgetNoOp == [](C12_Inv) /\ [][C12_NoRewrite]_vars

\* the second of two calls on a file that was within the budget all along
C12_Witness ==
  /\ enc.pc = "done" /\ enc.calls = 2 /\ enc.origSize <= enc.maxBytes
  /\ ~enc.prev.changed /\ enc.prev.newSize = enc.origSize /\ enc.writes = 0

(* C17: a call on an oversized file whose format is bmp or any format      *)
(* other than jpeg, png, webp, tiff and gif returns changed = false with   *)
(* newSize the original size, makes no encode attempt, and no step of it   *)
(* rewrites the file.                                                      *)
Unsupported(e) == ResolveFormat(e.metaFormat, e.filePath[2]) \notin Reencodable

C17_Inv ==
  (enc.pc = "done" /\ enc.origSize > enc.maxBytes /\ Unsupported(enc)) =>
    /\ ~enc.changed
    /\ enc.attempts = 0
    /\ enc.newSize = enc.origSize
    /\ enc.disk[enc.filePath] = enc.origSize

C17_NoRewrite ==
  (enc.pc # "off" /\ Unsupported(enc) /\ enc'.calls = enc.calls) =>
    /\ enc'.disk = enc.disk
    /\ enc'.writes = enc.writes

C17_UnsupportedUntouched == [](C17_Inv) /\ [][C17_NoRewrite]_vars

\* an oversized svg: the loop has walked every width step without encoding
C17_Witness ==
  /\ enc.pc = "done" /\ enc.origSize > enc.maxBytes /\ ~enc.failed
  /\ enc.format = "svg" /\ enc.wi = Len(enc.widthSteps) /\ enc.wi > 1

\* an oversized bmp, recognised by its extension only
C17_WitnessBmp ==
  /\ enc.pc = "done" /\ enc.origSize > enc.maxBytes /\ ~enc.failed
  /\ enc.format = "bmp" /\ enc.metaFormat = ""

(* ========================= ingestion: claims ========================== *)
IsIngest(r) == r.op \in {"local", "url"}
NewRows == DOMAIN images' \ DOMAIN images

(* C13: in every step that creates a record, the file of the record is     *)
(* already stored, the EnsureMaxSize call on it has returned and none is   *)
(* running afterwards, and the size stored in the record is the size of    *)
(* the file on disk at that moment, re-encoded or not.                     *)
C13_Created ==
  \A i \in NewRows :
    /\ images'[i].path \in files
    /\ enc.pc = "done"
    /\ enc'.pc = "off"
    /\ images'[i].size = enc.disk[enc.filePath]

C13_SizeAtCreation == [][C13_Created]_vars

\* a record of a local upload whose file the re-encoder changed
C13_Witness ==
  \E p \in Procs :
    /\ req[p].op = "local" /\ req[p].pc = "attach"
    /\ req[p].candidate.id \in DOMAIN images
    /\ images[req[p].candidate.id].size # req[p].fsize

(* C14: when an ingestion request has answered, every item it reports as   *)
(* created has one record of its own, stored file and all, carrying every  *)
(* tag of the request, and is reported with that record's id and token     *)
(* URL; the records the request created are exactly the reported ones      *)
(* unless the catalog refused a write, every file of a local upload is     *)
(* reported created, and a URL is reported failed only if its fetch or a   *)
(* catalog write failed.                                                   *)
Answered(r) == IsIngest(r) /\ r.result.kind = "created"
OkIds(r) == {r.created[k].id : k \in {j \in DOMAIN r.created : r.created[j].ok}}
RequestTagIds(r) == {tags[n] : n \in r.tagNames \cap DOMAIN tags}

C14_WitnessUrl ==
  \E p \in Procs :
    /\ Answered(req[p]) /\ req[p].op = "url"
    /\ req[p].tagNames # {} /\ OkIds(req[p]) # {}

(* C15: a URL batch never ends in a fault once its loop has started: a     *)
(* failed fetch or a refused catalog write gives that URL an error entry   *)
(* and the loop goes on; the request always has a next step until it       *)
(* answers, and the answer holds one entry per input URL, in input order.  *)
IngestStep(p) == Batch(p) \/ EncRun

C15_UrlFailureIsolated ==
  \A p \in Procs :
    LET r == req[p]
    IN (r.op = "url" /\ r.item >= 1) =>
         /\ r.result.kind # "fault"
         /\ \A k \in DOMAIN r.created : r.created[k].item = k
         /\ Len(r.created) + Len(r.items) = r.arg
         /\ Active(r) => ENABLED IngestStep(p)
         /\ r.pc = "done" => (Answered(r) /\ Len(r.created) = r.arg)

\* the first URL failed and the second was ingested
C15_Witness ==
  \E p \in Procs :
    /\ Answered(req[p]) /\ req[p].op = "url" /\ Len(req[p].created) = 2
    /\ ~req[p].created[1].ok /\ req[p].created[2].ok

\* the catalog refused the first URL's record and the second was ingested
C15_WitnessStore ==
  \E p \in Procs :
    /\ Answered(req[p]) /\ req[p].op = "url" /\ Len(req[p].created) = 2
    /\ req[p].created[1].url = "store" /\ req[p].created[2].ok

(* C16: a local upload never ends in a fault once its loop has started: a  *)
(* failure while ingesting one file leaves the other files to be ingested  *)
(* and the request answers with one entry per file.                        *)
C16_LocalFailureIsolated ==
  \A p \in Procs :
    LET r == req[p]
    IN (r.op = "local" /\ r.item >= 1) =>
         /\ r.result.kind # "fault"
         /\ r.pc = "done" => (Answered(r) /\ Len(r.created) = r.arg)

(* C18: when metadata() or an encode attempt of an EnsureMaxSize call has  *)
(* failed, the call has written nothing, the file has its original size,   *)
(* and the result is changed = false with newSize the original size; the   *)
(* item's record can then be created, and when the catalog accepts the     *)
(* insert it is created with the original size and the request goes on.    *)
C18_Inv ==
  (enc.pc = "done" /\ enc.failed) =>
    /\ ~enc.changed
    /\ enc.writes = 0
    /\ enc.newSize = enc.origSize
    /\ enc.disk[enc.filePath] = enc.origSize
    /\ \E p \in Procs : IsIngest(req[p]) /\ ENABLED ItemCreate(p)

C18_Step ==
  (enc.pc = "done" /\ enc.failed /\ enc'.pc = "off" /\ ~readOnly) =>
    /\ NewRows # {}
    /\ \A i \in NewRows : images'[i].size = enc.origSize
    /\ \A p \in Procs : req'[p].result.kind # "fault"

C18_EncoderFailureKeepsFile == [](C18_Inv) /\ [][C18_Step]_vars

\* an oversized item whose EnsureMaxSize call failed is reported created,
\* its record holding the original size
C18_Witness ==
  \E p \in Procs :
    LET r == req[p]
    IN /\ IsIngest(r) /\ r.encFailed /\ r.created # <<>>
       /\ r.created[Len(r.created)].ok
       /\ r.created[Len(r.created)].item = r.item
       /\ images[r.created[Len(r.created)].id].size > r.budget

(* ========================= listing: claims ============================ *)
(* C19: a listing that ran without concurrent mutation answers with        *)
(* exactly the matching records whose file exists, newest first, and       *)
(* leaves catalog and files as they were, so the records whose file is     *)
(* missing keep their row and their tag associations; no step of a listing *)
(* changes a row, an association, a tag or a file.                         *)
RowIds(rows) == [k \in DOMAIN rows |-> rows[k].id]

C19_Inv ==
  \A p \in Procs :
    LET r == req[p]
    IN (r.op = "list" /\ r.pc = "done" /\ r.quiet) =>
         /\ r.result.kind = "list"
         /\ RowIds(r.rows) = SortDesc(LiveAtStart(r))
         /\ Unchanged(r.snap)

C19_Frame ==
  \A p \in Procs :
    (req[p].op = "list" /\ req'[p].pc # req[p].pc) =>
      UNCHANGED <<images, imageTags, tags, files>>

C19_ListOmitsButKeeps == [](C19_Inv) /\ [][C19_Frame]_vars

\* a listing that omitted a tagged record whose file is missing, the record
\* and its association still in the catalog, and returned another
C19_Witness ==
  \E p \in Procs :
    LET r == req[p]
    IN /\ r.op = "list" /\ r.pc = "done" /\ r.quiet /\ r.rows # <<>>
       /\ \E i \in Matches(r.tagNames) :
            /\ images[i].path \notin files
            /\ LinksOf(i) # {}
            /\ \A k \in DOMAIN r.rows : r.rows[k].id # i

(* ======================= access tokens: claims ======================== *)
(* C20: every record carries a token issued at its creation; the tokens of *)
(* the records in the catalog are pairwise distinct; a record keeps its    *)
(* token as long as it exists; a record created by a step gets a token     *)
(* that no earlier record, live or deleted, ever had; and the token of a   *)
(* deleted record finds no record, in every later state.                   *)
\* the tokens of all records created so far, deleted ones included
Issued == {GenToken(i) : i \in 1..(nextId - 1)}
TokensOf(imgs) == {imgs[i].token : i \in DOMAIN imgs}

C20_Inv ==
  /\ TokensOf(images) \subseteq Issued
  /\ \A i, j \in DOMAIN images : i # j => images[i].token # images[j].token
  /\ \A t \in Issued \ TokensOf(images) : GetImageByToken(t) = NoRow
  /\ \A p \in Procs :
       LET r == req[p]
       IN /\ (r.op = "token" /\ r.result.kind = "notfound" /\ r.quiet) =>
               r.arg \notin DOMAIN images
          /\ (r.op = "token" /\ r.candidate # NoRow) =>
               r.candidate.id = r.arg

C20_Step ==
  /\ \A i \in DOMAIN images \cap DOMAIN images' :
       images'[i].token = images[i].token
  /\ \A i \in DOMAIN images' \ DOMAIN images :
       /\ images'[i].token \notin Issued
       /\ images'[i].token \in Issued'
  /\ Issued \subseteq Issued'
  /\ (Issued \ TokensOf(images)) \cap TokensOf(images') = {}

C20_WitnessLookup ==
  \E p \in Procs :
    LET r == req[p]
    IN /\ r.op = "token" /\ r.pc = "done" /\ r.result.kind = "notfound"
       /\ r.arg < nextId /\ r.arg \notin DOMAIN images

(* ===================== tag normalisation: claims ====================== *)
(* C21: normalising the output of NormalizeTagsUtf8 returns the same list, *)
(* same names in the same order, for every raw tags field.                 *)
C21_Idempotent ==
  \A p \in Procs :
    (req[p].op = "tags" /\ req[p].pc = "done") => req[p].twice = req[p].once

(* ======================= authorisation: claims ======================== *)
(* C22: a delete request of a caller who is neither the owner of the       *)
(* record nor an admin ends with the 403 outcome and none of its steps     *)
(* changes a row, an association, a tag or a file; a delete request that   *)
(* answered deleted was made by the owner or by an admin.                  *)
MayDelete(p, row) == p = row.owner \/ UserRole(p) = "admin"

C22_Inv ==
  \A p \in Procs :
    LET r == req[p]
    IN /\ (r.op = "delete" /\ r.result.kind = "forbidden") =>
            /\ ~MayDelete(p, r.candidate)
            /\ r.quiet => Unchanged(r.snap)
       /\ (r.op = "delete" /\ r.pc \in {"ddel", "done"}
           /\ r.result.kind # "notfound") =>
            (r.result.kind = "forbidden" <=> ~MayDelete(p, r.candidate))
       /\ (r.op = "delete" /\ r.result.kind \in {"deleted", "fault"}) =>
            MayDelete(p, r.candidate)

C22_Step ==
  \A p \in Procs :
    (/\ req[p].op = "delete" /\ req[p].candidate # NoRow
     /\ ~MayDelete(p, req[p].candidate)
     /\ req'[p] # req[p] /\ req'[p].pc # req[p].pc) =>
      UNCHANGED <<images, imageTags, tags, files>>

C22_ForbiddenChangesNothing == [](C22_Inv) /\ [][C22_Step]_vars

\* a plain user was refused the deletion of another user's tagged record,
\* which is still there with its association and its file
C22_Witness ==
  \E p \in Procs :
    LET r == req[p]
    IN /\ r.op = "delete" /\ r.pc = "done" /\ r.result.kind = "forbidden"
       /\ r.quiet
       /\ r.arg \in DOMAIN images
       /\ images[r.arg].owner # p
       /\ LinksOf(r.arg) # {}
       /\ images[r.arg].path \in files

(* ================== resolve under file loss: claims =================== *)
(* C23: a newest-mode resolve answers 404 only when no candidate of its    *)
(* candidate set is left unvisited, also when files vanish out-of-band     *)
(* while it runs: a candidate whose file vanished between the existence    *)
(* check of the loop and the send step does not end the resolve while      *)
(* candidates remain.                                                      *)
C23_NotFoundOnlyWhenExhausted ==
  \A p \in Procs :
    LET r == req[p]
    IN (r.op = "newest" /\ r.pc = "done"
        /\ r.result.kind \in {"notfound", "missing"}) => r.rows = <<>>

(* ================ failing lazy delete: claims ========================= *)
(* C24: a lazy delete that fails changes nothing and is swallowed: in      *)
(* newest mode the loop goes to the next candidate (not-found when none is *)
(* left), in random mode the attempt is counted and the next draw follows  *)
(* (not-found at the cap), in the send step the answer is the 404; the     *)
(* step never ends the request in a fault and never leaves it blocked; a   *)
(* newest resolve with failed deletes and no concurrent change still       *)
(* returns the newest record whose file exists.                            *)
FailedDeletes(r) == r.dels - Cardinality(r.deleted)

C24_Inv ==
  \A p \in Procs :
    LET r == req[p]
    IN /\ (IsResolve(r) /\ r.dels > 0 /\ r.pc # "done") => ENABLED ResolveStep(p)
       /\ (r.op = "random" /\ r.pc # "done") => r.tries = r.dels
       /\ (r.op \in {"newest", "random"} /\ r.result.kind = "fault") => r.hit
       /\ (r.op = "newest" /\ r.pc = "done" /\ r.quiet /\ FailedDeletes(r) > 0) =>
            IF LiveAtStart(r) = {}
            THEN r.result = [kind |-> "notfound", id |-> 0]
            ELSE r.result = [kind |-> "image", id |-> SetMax(LiveAtStart(r))]

C24_Step ==
  \A p \in Procs :
    LET r == req[p]
        n == req'[p]
    IN (r.op \in {"newest", "random"} /\ r.pc \in {"del", "senddel"}
        /\ readOnly /\ n.pc # r.pc) =>
         /\ UNCHANGED <<images, imageTags, tags, files>>
         /\ n.result.kind # "fault"
         /\ n.dels = r.dels + 1 /\ n.deleted = r.deleted
         /\ r.pc = "senddel" => (n.pc = "done" /\ n.result.kind = "missing")
         /\ (r.pc = "del" /\ r.op = "newest") =>
              IF r.rows = <<>>
              THEN n.pc = "done" /\ n.result.kind = "notfound"
              ELSE n.pc = "check" /\ n.candidate = Head(r.rows)
                   /\ n.rows = Tail(r.rows)
         /\ (r.pc = "del" /\ r.op = "random") =>
              /\ n.tries = r.tries + 1
              /\ IF r.tries + 1 < maxTries
                 THEN n.pc = "draw"
                 ELSE n.pc = "done" /\ n.result.kind = "notfound"

C24_DeleteFailureSwallowed == [](C24_Inv) /\ [][C24_Step]_vars

\* a newest resolve whose lazy delete failed went on and returned a record
C24_Witness ==
  \E p \in Procs :
    LET r == req[p]
    IN /\ r.op = "newest" /\ r.pc = "done" /\ r.quiet
       /\ FailedDeletes(r) > 0
       /\ r.result.kind = "image"
       /\ \E i \in r.seen : i \in DOMAIN images /\ i > r.result.id

\* a random resolve whose lazy deletes kept failing reached the cap
C24_WitnessRandom ==
  \E p \in Procs :
    LET r == req[p]
    IN /\ r.op = "random" /\ r.pc = "done"
       /\ r.tries = maxTries /\ FailedDeletes(r) > 0
       /\ r.result.kind = "notfound"

\* a random resolve drew again after a failed delete and returned a record
C24_WitnessRandomHit ==
  \E p \in Procs :
    LET r == req[p]
    IN /\ r.op = "random" /\ r.pc = "done"
       /\ FailedDeletes(r) > 0 /\ r.result.kind = "image"

(* ===================== search order: claims =========================== *)
(* C25: the search visits the width steps in decreasing order and, at each *)
(* width, the ladder in its listed order, skipping none; the first         *)
(* encoding of at most maxBytes ends it: no attempt follows, and the bytes *)
(* written are that encoding, made at the width step and ladder step the   *)
(* search was at.                                                          *)
Searching(e) == e.pc = "encode" /\ LadderLen(e.format) > 0

C25_Inv ==
  /\ Searching(enc) =>
       /\ enc.attempts = (enc.wi - 1) * LadderLen(enc.format) + (enc.qi - 1)
       /\ \A size \in enc.produced : size > enc.maxBytes
       /\ enc.fitAt = 0
       /\ \A k \in 1..(Len(enc.widthSteps) - 1) :
            enc.widthSteps[k + 1] < enc.widthSteps[k]
  /\ (enc.pc \in {"write", "done"} /\ enc.fitAt # 0) =>
       /\ enc.fitAt = enc.attempts
       /\ {size \in enc.produced : size <= enc.maxBytes} = {enc.bestSize}
       /\ enc.failed \/ enc.pc = "write" \/
            (enc.changed /\ enc.newSize = enc.bestSize
             /\ enc.disk[enc.filePath] = enc.bestSize)

C25_Step ==
  (Searching(enc) /\ enc' # enc /\ enc'.attempts = enc.attempts + 1) =>
    LET fit == enc'.fitAt # 0
    IN /\ fit => /\ enc'.pc = "write"
                 /\ enc'.bestSize <= enc.maxBytes
                 /\ enc'.bestW = enc.widthSteps[enc.wi]
                 /\ enc'.wi = enc.wi /\ enc'.qi = enc.qi
       /\ (~fit /\ enc'.pc = "encode") =>
            \/ enc'.wi = enc.wi /\ enc'.qi = enc.qi + 1
            \/ /\ enc.qi = LadderLen(enc.format)
               /\ enc'.wi = enc.wi + 1 /\ enc'.qi = 1
       /\ (~fit /\ enc'.pc # "encode") =>
            /\ enc.wi = Len(enc.widthSteps)
            /\ enc.qi = LadderLen(enc.format)

C25_FirstFitStops == [](C25_Inv) /\ [][C25_Step]_vars

\* the first fit came at the second ladder step of the second width, after
\* a whole ladder at the original width, and was written
C25_Witness ==
  /\ enc.pc = "done" /\ enc.changed /\ ~enc.failed
  /\ enc.fitAt = LadderLen(enc.format) + 2
  /\ Len(enc.widthSteps) >= 2
  /\ enc.bestW = enc.widthSteps[2]
  /\ enc.newSize <= enc.maxBytes
  /\ Cardinality(enc.produced) >= 2

(* ======================= width steps: claims ========================== *)
(* C26 as stated: for every known width W >= 1 the width steps start at W, *)
(* are strictly decreasing, each later one is round(0.85 x previous) until *)
(* that would be 64 or less, none is below 64 and exactly one, the last,   *)
(* is 64.                                                                  *)
\* n = Math.round(0.85 * prev)
IsRound85(n, prev) == 100 * n <= 85 * prev + 50 /\ 85 * prev + 50 < 100 * n + 100

\* the steps are built and the file still has the width they were built from
StepsBuilt(e) == e.pc \in {"encode", "write"} /\ e.width >= 1

ChainTo64(s) ==
  /\ \A k \in 1..(Len(s) - 1) :
       /\ s[k + 1] < s[k]
       /\ IF k + 1 < Len(s)
          THEN IsRound85(s[k + 1], s[k]) /\ s[k + 1] > 64
          ELSE 85 * s[k] + 50 < 6500
  /\ \A k \in DOMAIN s : s[k] >= 64
  /\ s[Len(s)] = 64
  /\ Cardinality({k \in DOMAIN s : s[k] = 64}) = 1

C26_StartsAtWidth ==
  StepsBuilt(enc) => (enc.widthSteps[1] = enc.width /\ ChainTo64(enc.widthSteps))

(* C26 amended: the same, the first step being W when W > 64 and the       *)
(* sequence being the single step 64 when W <= 64.                         *)
C26_WidthSteps ==
  StepsBuilt(enc) =>
    /\ ChainTo64(enc.widthSteps)
    /\ IF enc.width > 64
       THEN enc.widthSteps[1] = enc.width
       ELSE enc.widthSteps = <<64>>

\* the steps of a width that takes two reductions above 64
C26_Witness ==
  /\ StepsBuilt(enc) /\ Len(enc.widthSteps) >= 3
  /\ enc.widthSteps[1] = enc.width

\* the steps of a width whose first reduction rounds to 64 exactly
C26_WitnessExact ==
  /\ StepsBuilt(enc) /\ Len(enc.widthSteps) = 2
  /\ IsRound85(64, enc.width)

\* the steps of a width below the floor
C26_WitnessSmall ==
  /\ StepsBuilt(enc) /\ enc.width < 64 /\ enc.widthSteps = <<64>>

(* ======================= get-or-create: claims ======================== *)
(* C27: EnsureTags never fails in a catalog that accepts writes, also when *)
(* two ingestions ask for the same new name at the same time: no upload    *)
(* ends in a fault while it ensures its tags, an existing name creates no  *)
(* row, and the ids of the tag rows are pairwise distinct.                 *)
C27_EnsureTagsIdempotent ==
  /\ \A n, m \in DOMAIN tags : tags[n] = tags[m] => n = m
  /\ \A p \in Procs :
       LET r == req[p]
       IN (r.op = "upload" /\ r.pc = "done" /\ r.upTags # <<>> /\ ~readOnly) =>
            r.result.kind # "fault"

(* ==================== random mode succeeds: claims ==================== *)
(* C28: a random resolve that ran with no concurrent change, all of whose  *)
(* lazy deletes succeeded, with fewer than 50 matching records missing     *)
(* their file and at least one matching record having its file, returns a  *)
(* matching record whose file exists, never not-found, after at most one   *)
(* failed draw per missing record.                                         *)
MissingAtStart(r) ==
  MatchIn(r.snap.images, r.snap.imageTags, r.snap.tags, r.tagNames)
    \ LiveAtStart(r)

C28_RandomFindsLive ==
  \A p \in Procs :
    LET r == req[p]
    IN (r.op = "random" /\ r.pc = "done" /\ r.quiet
        /\ FailedDeletes(r) = 0
        /\ Cardinality(MissingAtStart(r)) < maxTries
        /\ LiveAtStart(r) # {}) =>
         /\ r.result.kind = "image"
         /\ r.result.id \in LiveAtStart(r)
         /\ images[r.result.id].path \in files
         /\ r.deleted \subseteq MissingAtStart(r)
         /\ r.tries = Cardinality(r.deleted)

\* every missing record was drawn and deleted before the live one came up
C28_Witness ==
  \E p \in Procs :
    LET r == req[p]
    IN /\ r.op = "random" /\ r.pc = "done" /\ r.quiet
       /\ FailedDeletes(r) = 0
       /\ r.result.kind = "image"
       /\ r.tries >= 1
       /\ r.deleted = MissingAtStart(r)

(* ==================== retrieval frame: claims ========================= *)
(* C29: a resolve (newest, random, by id or by token) removes a row only   *)
(* in a step that deletes its current candidate, after an existence check  *)
(* of the same call found that candidate's file missing; a record is       *)
(* marked missing only in a step in which its file does not exist; and no  *)
(* step of a resolve adds or removes a file.                               *)
IsRetrieval(r) == r.op \in {"newest", "random", "raw", "token"}

C29_Inv ==
  \A p \in Procs :
    IsRetrieval(req[p]) => req[p].deleted \subseteq req[p].seen

C29_Step ==
  \A p \in Procs :
    LET r == req[p]
        n == req'[p]
    IN (IsRetrieval(r) /\ n.pc # r.pc) =>
         /\ files' = files
         /\ DOMAIN images \ DOMAIN images' \subseteq {r.candidate.id} \cap r.seen
         /\ DOMAIN images' \subseteq DOMAIN images
         /\ imageTags' \subseteq imageTags
         /\ \A l \in imageTags \ imageTags' :
              l[1] = r.candidate.id /\ l[1] \in r.seen
         /\ \A i \in n.seen \ r.seen :
              i = r.candidate.id /\ r.candidate.path \notin files

C29_DeleteOnlyAfterMiss == [](C29_Inv) /\ [][C29_Step]_vars

\* a by-id resolve removed the record whose file it found missing, while the
\* other records and all files stayed
C29_Witness ==
  \E p \in Procs :
    LET r == req[p]
    IN /\ r.op = "raw" /\ r.pc = "done" /\ r.quiet
       /\ r.deleted = {r.arg}
       /\ r.snap.images[r.arg].path \notin r.snap.files
       /\ files = r.snap.files /\ files # {}
       /\ DOMAIN images = DOMAIN r.snap.images \ {r.arg}

\* a newest resolve removed the records it found missing and returned one
\* it found present
C29_WitnessNewest ==
  \E p \in Procs :
    LET r == req[p]
    IN /\ r.op = "newest" /\ r.pc = "done" /\ r.quiet
       /\ r.deleted # {} /\ r.result.kind = "image"
       /\ r.result.id \in DOMAIN images
       /\ files = r.snap.files

(* ======================= identifiers: claims ========================== *)
(* C30: a created record never gets an id that any earlier record had, a   *)
(* row keeps denoting the same stored file as long as it exists, and a     *)
(* lazy delete removes no record other than the one the resolve observed,  *)
(* also when its candidate was deleted by another request and a record was *)
(* ingested since.                                                         *)
C30_Inv == \A i \in DOMAIN images : i < nextId

C30_Step ==
  /\ nextId' >= nextId
  /\ \A i \in DOMAIN images' \ DOMAIN images : i >= nextId /\ i < nextId'
  /\ \A i \in DOMAIN images \cap DOMAIN images' :
       images'[i].path = images[i].path /\ images'[i].owner = images[i].owner
  /\ \A p \in Procs :
       (IsResolve(req[p]) /\ req'[p].pc # req[p].pc) =>
         \A i \in DOMAIN images \ DOMAIN images' :
           /\ i = req[p].candidate.id
           /\ images[i].path = req[p].candidate.path

C30_IdsNeverReused == [](C30_Inv) /\ [][C30_Step]_vars

\* a resolve is about to issue the lazy delete of a candidate whose row
\* another request has deleted, a record having been ingested since the
\* list was made
C30_Witness ==
  \E p \in Procs, q \in Procs :
    LET r == req[p]
    IN /\ r.op = "newest" /\ r.pc = "del"
       /\ r.candidate.id \notin DOMAIN images
       /\ r.candidate.id < nextId
       /\ req[q].op = "upload" /\ req[q].result.kind = "created"
       /\ req[q].result.id \in DOMAIN images
       /\ req[q].result.id > r.candidate.id
       /\ \A k \in DOMAIN r.rows : r.rows[k].id # req[q].result.id

\* the stale lazy delete has run and the ingested record is still there
C30_WitnessAfter ==
  \E p \in Procs, q \in Procs :
    LET r == req[p]
    IN /\ r.op = "newest" /\ r.pc = "done" /\ r.dels >= 1
       /\ req[q].op = "upload" /\ req[q].result.kind = "created"
       /\ req[q].result.id \in DOMAIN images
       /\ \E c \in r.deleted : c < req[q].result.id

=============================================================================
